---- MODULE Spec2Model ----
(***************************************************************************)
(* The profile-enrichment pipeline of serpapi_method.py (Profile Resolver, *)
(* Label Classifier, process_profiles) as a state machine.                 *)
(*                                                                         *)
(* Python strings are sequences of one-character strings, so that          *)
(* slicing, split, strip, lower, join and the substring test are computed  *)
(* as Python computes them.                                                *)
(***************************************************************************)
EXTENDS Integers, Sequences, FiniteSets, TLC

\* ------------------------------------------------------------------ bounds

\* Largest number of rows of an input table.
MaxRows == 2

\* The number of nested retries of get_linkedin_profile_data after which the
\* interpreter's recursion limit is reached (about 1000 frames in CPython; the
\* code itself has no cap on the retries).
Max429 == 2

\* Largest number of rows of an input file read by main.
MaxInputRows == 6

\* --------------------------------------------------------- program constants

\* interests[:10]
MaxTags == 10

\* time.sleep(60) after a 429
COOLDOWN == 60

\* time.sleep(2) after a classified row
PACE == 2

\* df.head(5) in main
HeadLimit == 5

\* ------------------------------------------------------------ str operations

UpperToLower ==
    ("A" :> "a") @@ ("B" :> "b") @@ ("C" :> "c") @@ ("D" :> "d") @@ ("E" :> "e") @@
    ("F" :> "f") @@ ("G" :> "g") @@ ("H" :> "h") @@ ("I" :> "i") @@ ("J" :> "j") @@
    ("K" :> "k") @@ ("L" :> "l") @@ ("M" :> "m") @@ ("N" :> "n") @@ ("O" :> "o") @@
    ("P" :> "p") @@ ("Q" :> "q") @@ ("R" :> "r") @@ ("S" :> "s") @@ ("T" :> "t") @@
    ("U" :> "u") @@ ("V" :> "v") @@ ("W" :> "w") @@ ("X" :> "x") @@ ("Y" :> "y") @@
    ("Z" :> "z")

\* str.lower()
lower(s) ==
    [i \in 1..Len(s) |-> IF s[i] \in DOMAIN UpperToLower THEN UpperToLower[s[i]] ELSE s[i]]

\* s[:n]
Slice(s, n) ==
    SubSeq(s, 1, IF Len(s) < n THEN Len(s) ELSE n)

\* str.find(sub) + 1: the first position at which sub occurs in s, 0 if none.
Find(s, sub) ==
    LET hits == {i \in 1..(Len(s) - Len(sub) + 1) : SubSeq(s, i, i + Len(sub) - 1) = sub}
    IN  IF hits = {} THEN 0 ELSE CHOOSE i \in hits : \A j \in hits : i <= j

\* sub in s
Contains(sub, s) ==
    Find(s, sub) # 0

RECURSIVE split(_, _)
\* s.split(sep): the pieces between the occurrences of sep, found left to right.
split(s, sep) ==
    LET i == Find(s, sep)
    IN  IF i = 0
        THEN <<s>>
        ELSE <<SubSeq(s, 1, i - 1)>> \o split(SubSeq(s, i + Len(sep), Len(s)), sep)

RECURSIVE join(_, _)
\* sep.join(parts)
join(sep, parts) ==
    IF Len(parts) = 0 THEN <<>>
    ELSE IF Len(parts) = 1 THEN parts[1]
    ELSE parts[1] \o sep \o join(sep, Tail(parts))

RECURSIVE strip(_)
\* s.strip()
strip(s) ==
    IF Len(s) = 0 THEN s
    ELSE IF s[1] = " " THEN strip(Tail(s))
    ELSE IF s[Len(s)] = " " THEN strip(SubSeq(s, 1, Len(s) - 1))
    ELSE s

\* ----------------------------------------------------------------- taxonomy

INTERESTS ==
    <<
       <<"S","t","r","a","t","e","g","y">>,
       <<"O","p","e","r","a","t","i","o","n","s">>,
       <<"E","n","t","r","e","p","r","e","n","e","u","r","s","h","i","p">>,
       <<"L","e","a","d","e","r","s","h","i","p">>,
       <<"M","a","n","a","g","e","m","e","n","t">>,
       <<"M","a","r","k","e","t","i","n","g">>,
       <<"S","a","l","e","s">>,
       <<"I","n","v","e","s","t","i","n","g">>,
       <<"P","e","r","s","o","n","a","l"," ","F","i","n","a","n","c","e">>,
       <<"C","o","r","p","o","r","a","t","e"," ","F","i","n","a","n","c","e">>,
       <<"F","i","n","a","n","c","i","a","l"," ","P","l","a","n","n","i","n","g">>,
       <<"V","e","n","t","u","r","e"," ","C","a","p","i","t","a","l">>,
       <<"E","c","o","n","o","m","i","c","s">>,
       <<"A","r","t","i","f","i","c","i","a","l"," ","I","n","t","e","l","l","i","g","e","n","c","e">>,
       <<"B","l","o","c","k","c","h","a","i","n">>,
       <<"C","y","b","e","r","s","e","c","u","r","i","t","y">>,
       <<"S","o","f","t","w","a","r","e"," ","D","e","v","e","l","o","p","m","e","n","t">>,
       <<"D","a","t","a"," ","S","c","i","e","n","c","e">>,
       <<"C","l","o","u","d"," ","C","o","m","p","u","t","i","n","g">>,
       <<"R","e","m","o","t","e"," ","W","o","r","k">>,
       <<"C","a","r","e","e","r"," ","D","e","v","e","l","o","p","m","e","n","t">>,
       <<"W","o","r","k","p","l","a","c","e"," ","C","u","l","t","u","r","e">>,
       <<"J","o","b"," ","H","u","n","t","i","n","g">>,
       <<"N","e","t","w","o","r","k","i","n","g">>,
       <<"F","r","e","e","l","a","n","c","i","n","g">>,
       <<"M","e","n","t","a","l"," ","H","e","a","l","t","h">>,
       <<"P","h","y","s","i","c","a","l"," ","F","i","t","n","e","s","s">>,
       <<"N","u","t","r","i","t","i","o","n">>,
       <<"M","i","n","d","f","u","l","n","e","s","s">>,
       <<"W","o","r","k","-","L","i","f","e"," ","B","a","l","a","n","c","e">>,
       <<"S","l","e","e","p">>,
       <<"P","r","o","d","u","c","t","i","v","i","t","y">>,
       <<"T","i","m","e"," ","M","a","n","a","g","e","m","e","n","t">>,
       <<"G","o","a","l"," ","S","e","t","t","i","n","g">>,
       <<"H","a","b","i","t","s">>,
       <<"S","e","l","f","-","D","i","s","c","i","p","l","i","n","e">>,
       <<"M","o","t","i","v","a","t","i","o","n">>,
       <<"L","i","f","e","l","o","n","g"," ","L","e","a","r","n","i","n","g">>,
       <<"O","n","l","i","n","e"," ","C","o","u","r","s","e","s">>,
       <<"R","e","a","d","i","n","g">>,
       <<"W","r","i","t","i","n","g">>,
       <<"P","u","b","l","i","c"," ","S","p","e","a","k","i","n","g">>,
       <<"C","r","i","t","i","c","a","l"," ","T","h","i","n","k","i","n","g">>,
       <<"D","e","s","i","g","n">>,
       <<"S","t","o","r","y","t","e","l","l","i","n","g">>,
       <<"C","o","n","t","e","n","t"," ","C","r","e","a","t","i","o","n">>,
       <<"I","n","n","o","v","a","t","i","o","n">>,
       <<"A","r","t">>,
       <<"M","e","d","i","a">>,
       <<"D","i","v","e","r","s","i","t","y"," ","&"," ","I","n","c","l","u","s","i","o","n">>,
       <<"S","o","c","i","a","l"," ","I","m","p","a","c","t">>,
       <<"E","t","h","i","c","s">>,
       <<"G","l","o","b","a","l"," ","T","r","e","n","d","s">>,
       <<"P","o","l","i","t","i","c","s">>,
       <<"S","u","s","t","a","i","n","a","b","i","l","i","t","y">>,
       <<"S","p","a","c","e"," ","E","x","p","l","o","r","a","t","i","o","n">>,
       <<"C","l","i","m","a","t","e"," ","C","h","a","n","g","e">>,
       <<"B","i","o","t","e","c","h">>,
       <<"F","u","t","u","r","i","s","m">>,
       <<"Q","u","a","n","t","u","m"," ","C","o","m","p","u","t","i","n","g">>,
       <<"E","m","e","r","g","i","n","g"," ","T","e","c","h","n","o","l","o","g","i","e","s">>
    >>

\* "Profile inaccessible"
Sentinel ==
    <<"P","r","o","f","i","l","e"," ","i","n","a","c","c","e","s","s","i","b","l","e">>

\* ------------------------------------------------------------ Python values

\* The values json.loads can yield, and the classifier can return.
PyStr(s) ==
    [t |-> "str", s |-> s, items |-> <<>>, fields |-> <<>>]

PyInt ==
    [t |-> "int", s |-> <<>>, items |-> <<>>, fields |-> <<>>]

PyNone ==
    [t |-> "None", s |-> <<>>, items |-> <<>>, fields |-> <<>>]

PyList(items) ==
    [t |-> "list", s |-> <<>>, items |-> items, fields |-> <<>>]

\* A dict; fields is the sequence of its <<key, value>> pairs.
PyDict(fields) ==
    [t |-> "dict", s |-> <<>>, items |-> <<>>, fields |-> fields]

\* key in d
HasKey(d, key) ==
    \E i \in 1..Len(d.fields) : d.fields[i][1] = key

\* d[key], for a key of d
GetKey(d, key) ==
    d.fields[CHOOSE i \in 1..Len(d.fields) : d.fields[i][1] = key][2]

\* The outcome of a call: the exception it raised ("" when none) and its value.
Returned(v) ==
    [exc |-> "", value |-> v]

Raised(e) ==
    [exc |-> e, value |-> PyNone]

\* ---------------------------------------------------- completion capability

\* What client.chat.completions.create gives back for one request:
\*   api_error   the call raises (network, auth, malformed request)
\*   no_content  a response whose message.content is None
\*   not_json    content that json.loads rejects; text is the content
\*   json        content that json.loads accepts; value is what it yields
ApiError ==
    [kind |-> "api_error", text |-> <<>>, value |-> PyNone]

NoContent ==
    [kind |-> "no_content", text |-> <<>>, value |-> PyNone]

NotJson(text) ==
    [kind |-> "not_json", text |-> text, value |-> PyNone]

Json(value) ==
    [kind |-> "json", text |-> <<>>, value |-> value]

\* json.loads(interests_text)
json_loads(c) ==
    IF c.kind = "json" THEN Returned(c.value)
    ELSE IF c.kind = "not_json" THEN Raised("JSONDecodeError")
    ELSE Raised("TypeError")

\* ------------------------------------------------------------ Label Classifier

\* fallback_scan with interests.append(interest.lower()): the labels found are
\* collected in lower case.
fallback_scan_Lowercased(interests_text) ==
    LET Occurs(interest) == Contains(lower(interest), lower(interests_text))
        found == SelectSeq(INTERESTS, Occurs)
    IN  IF Len(found) = 0
        THEN PyList(<<PyStr(Sentinel)>>)
        ELSE PyList([i \in 1..Len(found) |-> PyStr(lower(found[i]))])

\* fallback_scan without the two lower() calls: the test is case-sensitive.
fallback_scan_CaseSensitive(interests_text) ==
    LET Occurs(interest) == Contains(interest, interests_text)
        found == SelectSeq(INTERESTS, Occurs)
    IN  IF Len(found) = 0
        THEN PyList(<<PyStr(Sentinel)>>)
        ELSE PyList([i \in 1..Len(found) |-> PyStr(found[i])])

\* The substring fallback: every INTERESTS label that occurs in the response
\* text, compared in lower case, in INTERESTS order; the sentinel when none does.
fallback_scan(interests_text) ==
    LET Occurs(interest) == Contains(lower(interest), lower(interests_text))
        found == SelectSeq(INTERESTS, Occurs)
    IN  IF Len(found) = 0
        THEN PyList(<<PyStr(Sentinel)>>)
        ELSE PyList([i \in 1..Len(found) |-> PyStr(found[i])])

\* The try block that parses the response: the value bound to `interests`.
parse_interests(c) ==
    LET parsed == json_loads(c)
    IN  IF parsed.exc = "JSONDecodeError" THEN Returned(fallback_scan(c.text))
        ELSE IF parsed.exc # "" THEN parsed
        ELSE IF parsed.value.t = "dict" /\ HasKey(parsed.value, "interests")
             THEN Returned(GetKey(parsed.value, "interests"))
             ELSE parsed

\* slice_interests with the slice left out: return interests
slice_interests_NoCap(v) ==
    IF v.t \in {"list", "str"} THEN Returned(v) ELSE Raised("TypeError")

\* interests[:10]
slice_interests(v) ==
    IF v.t = "list" THEN Returned(PyList(Slice(v.items, MaxTags)))
    ELSE IF v.t = "str" THEN Returned(PyStr(Slice(v.s, MaxTags)))
    ELSE Raised("TypeError")

\* get_interests_from_profile, given the completion capability's answer c: the
\* value it returns. Every exception inside it is caught and becomes the
\* sentinel list.
get_interests_from_profile(c) ==
    IF c.kind = "api_error" THEN PyList(<<PyStr(Sentinel)>>)
    ELSE LET interests == parse_interests(c)
             sliced == IF interests.exc # "" THEN interests
                       ELSE slice_interests(interests.value)
         IN  IF sliced.exc # "" THEN PyList(<<PyStr(Sentinel)>>) ELSE sliced.value

\* ', '.join(interests) in process_profiles: a str is joined character by
\* character, and a list with an element that is not a str raises TypeError.
join_interests(v) ==
    IF v.t = "str" THEN Returned(PyStr(join(<<",", " ">>, [i \in 1..Len(v.s) |-> <<v.s[i]>>])))
    ELSE IF v.t = "list" /\ \A i \in 1..Len(v.items) : v.items[i].t = "str"
         THEN Returned(PyStr(join(<<",", " ">>, [i \in 1..Len(v.items) |-> v.items[i].s])))
    ELSE Raised("TypeError")

\* --------------------------------------------------------- search capability

\* A cell of the table that is not a str (pandas reads an empty cell as NaN).
NaN ==
    [t |-> "float", s |-> <<>>, items |-> <<>>, fields |-> <<>>]

\* What requests.get gives back for one request:
\*   transport_error  the call raises
\*   http             a response with a status code; json says whether
\*                    response.json() parses the body, data is what it yields
TransportError ==
    [kind |-> "transport_error", status |-> 0, json |-> FALSE, data |-> PyNone]

Http(status) ==
    [kind |-> "http", status |-> status, json |-> FALSE, data |-> PyNone]

HttpJson(status, data) ==
    [kind |-> "http", status |-> status, json |-> TRUE, data |-> data]

\* ------------------------------------------------------------ Profile Resolver

\* url.split('/in/')[-1].split('/')[0]
profile_id_of(url) ==
    LET parts == split(url, <<"/","i","n","/">>)
    IN  split(parts[Len(parts)], <<"/">>)[1]

\* What one organic result appends to profile_info.
result_info(result, profile_id) ==
    (IF HasKey(result, "title") THEN <<GetKey(result, "title")>> ELSE <<>>)
    \o (IF HasKey(result, "snippet") THEN <<GetKey(result, "snippet")>> ELSE <<>>)
    \o (IF /\ HasKey(result, "link")
           /\ Contains(profile_id, GetKey(result, "link").s)
           /\ HasKey(result, "about_this_result")
        THEN LET about == GetKey(result, "about_this_result")
             IN  <<IF HasKey(about, "description")
                   THEN GetKey(about, "description") ELSE PyStr(<<>>)>>
        ELSE <<>>)

RECURSIVE results_info(_, _)
\* The loop over data['organic_results'].
results_info(results, profile_id) ==
    IF Len(results) = 0 THEN <<>>
    ELSE result_info(results[1], profile_id) \o results_info(Tail(results), profile_id)

\* Lines 123-144: the snippet derived from the parsed body, or the exception
\* that the extraction raises.
extract_snippet(data, profile_id) ==
    IF data.t \notin {"dict", "list"} THEN Raised("TypeError")
    ELSE IF data.t = "list" \/ ~HasKey(data, "organic_results") THEN Returned(PyStr(<<>>))
    ELSE LET results == GetKey(data, "organic_results")
         IN  IF results.t # "list" THEN Raised("TypeError")
             ELSE LET profile_info == results_info(results.items, profile_id)
                  IN  IF Len(profile_info) = 0 THEN Returned(PyStr(<<>>))
                      ELSE IF \E i \in 1..Len(profile_info) : profile_info[i].t # "str"
                           THEN Raised("TypeError")
                      ELSE Returned(PyStr(strip(join(<<" ">>,
                               [i \in 1..Len(profile_info) |-> profile_info[i].s]))))

\* Whether this answer makes get_linkedin_profile_data sleep and call itself.
rate_limited(url, r) ==
    url.t = "str" /\ r.kind = "http" /\ r.status = 429

\* get_linkedin_profile_data with an except clause that returns str(e), the
\* error text, where the code returns "".
get_linkedin_profile_data_ErrorText(url, r) ==
    IF url.t # "str" THEN <<"e","r","r">>
    ELSE IF r.kind = "transport_error" THEN <<"e","r","r">>
    ELSE IF r.status >= 400 THEN <<"e","r","r">>
    ELSE IF ~r.json THEN <<"e","r","r">>
    ELSE LET got == extract_snippet(r.data, profile_id_of(url.s))
         IN  IF got.exc # "" THEN <<"e","r","r">> ELSE got.value.s

\* One frame of get_linkedin_profile_data that does not recurse: the str it
\* returns for the search capability's answer r. Every exception is caught
\* and becomes "".
get_linkedin_profile_data(url, r) ==
    IF url.t # "str" THEN <<>>
    ELSE IF r.kind = "transport_error" THEN <<>>
    ELSE IF r.status >= 400 THEN <<>>
    ELSE IF ~r.json THEN <<>>
    ELSE LET got == extract_snippet(r.data, profile_id_of(url.s))
         IN  IF got.exc # "" THEN <<>> ELSE got.value.s

\* ------------------------------------------------------------------- inputs

\* The labels at the given positions of INTERESTS, as a list of str.
Labels(positions) ==
    [i \in 1..Len(positions) |-> PyStr(INTERESTS[positions[i]])]

\* ["Software Development", "Innovation", "Writing", "Critical Thinking",
\*  "Lifelong Learning"]
FiveLabels ==
    Labels(<<17, 47, 41, 43, 38>>)

\* Twelve labels, in an order that is not the order of INTERESTS.
TwelveLabels ==
    Labels(<<12, 11, 10, 9, 8, 7, 6, 5, 4, 3, 2, 1>>)

\* "Sales and LEADERSHIP"
TextTwoLabels ==
    <<"S","a","l","e","s"," ","a","n","d"," ","L","E","A","D","E","R","S","H","I","P">>

\* "n/a"
TextNoLabel ==
    <<"n","/","a">>

\* "politics futurism biotech writing reading design habits ethics sales sleep media art"
TextTwelveLabels ==
    <<"p","o","l","i","t","i","c","s"," ","f","u","t","u","r","i","s","m"," ",
      "b","i","o","t","e","c","h"," ","w","r","i","t","i","n","g"," ",
      "r","e","a","d","i","n","g"," ","d","e","s","i","g","n"," ",
      "h","a","b","i","t","s"," ","e","t","h","i","c","s"," ",
      "s","a","l","e","s"," ","s","l","e","e","p"," ","m","e","d","i","a"," ","a","r","t">>

\* "Artificial Intelligence", which also holds the label "Art"
TextOverlap ==
    <<"A","r","t","i","f","i","c","i","a","l"," ","I","n","t","e","l","l","i","g","e","n","c","e">>

\* The answers the completion capability may give to a request.
Completions ==
    { ApiError,
      NoContent,
      NotJson(TextTwoLabels),
      NotJson(TextNoLabel),
      NotJson(TextTwelveLabels),
      NotJson(TextOverlap),
      Json(PyDict(<< <<"interests", PyList(FiveLabels)>> >>)),
      Json(PyDict(<< <<"interests", PyList(TwelveLabels)>> >>)),
      Json(PyDict(<< <<"interests", PyList(<<>>)>> >>)),
      Json(PyDict(<< <<"interests", PyList(<<PyStr(<<"F","o","o">>)>>)>> >>)),
      Json(PyDict(<< <<"interests", PyStr(INTERESTS[7])>> >>)),
      Json(PyDict(<< <<"interests", PyList(<<PyInt>>)>> >>)),
      Json(PyDict(<< <<"interests", PyNone>> >>)),
      Json(PyDict(<< <<"tags", PyList(FiveLabels)>> >>)),
      Json(PyList(<<>>)),
      Json(PyList(TwelveLabels)),
      Json(PyInt) }

\* {"title": "Ada L", "snippet": "math", "link": "l.co/in/ada",
\*  "about_this_result": {"description": "bio"}}
ResultAda ==
    PyDict(<< <<"title", PyStr(<<"A","d","a"," ","L">>)>>,
              <<"snippet", PyStr(<<"m","a","t","h">>)>>,
              <<"link", PyStr(<<"l",".","c","o","/","i","n","/","a","d","a">>)>>,
              <<"about_this_result", PyDict(<< <<"description", PyStr(<<"b","i","o">>)>> >>)>> >>)

\* The answers the search capability may give to a request.
SearchAnswers ==
    { TransportError,
      Http(429),
      Http(500),
      Http(200),
      HttpJson(200, PyDict(<<>>)),
      HttpJson(200, PyNone),
      HttpJson(200, PyDict(<< <<"organic_results", PyList(<<>>)>> >>)),
      HttpJson(200, PyDict(<< <<"organic_results", PyNone>> >>)),
      HttpJson(200, PyDict(<< <<"organic_results", PyList(<<ResultAda>>)>> >>)),
      HttpJson(200, PyDict(<< <<"organic_results",
                               PyList(<<PyDict(<< <<"title", PyStr(<<" ">>)>> >>)>>)>> >>)),
      HttpJson(200, PyDict(<< <<"organic_results",
                               PyList(<<PyDict(<< <<"title", PyNone>> >>)>>)>> >>)) }

\* The contacts a table's rows are drawn from; the third has no URL value.
Subjects ==
    << [first |-> <<"A","d","a">>, last |-> <<"L">>, company |-> <<"A","E">>,
        position |-> <<"M">>,
        url |-> PyStr(<<"l",".","c","o","/","i","n","/","a","d","a">>)],
       [first |-> <<"B","o","b">>, last |-> <<"K">>, company |-> <<"B","C">>,
        position |-> <<"E">>,
        url |-> PyStr(<<"l",".","c","o","/","i","n","/","b","o","b","/","x">>)],
       [first |-> <<"C","y">>, last |-> <<"R">>, company |-> <<"C","D">>,
        position |-> <<"D">>,
        url |-> NaN] >>

\* The column lists an input table may have.
Headers ==
    { <<"First Name", "Last Name", "URL", "Company", "Position">>,
      <<"First Name", "Last Name", "URL", "Company", "Position", "Interests">>,
      <<"First Name", "Last Name", "Company", "Position">>,
      <<"First Name", "Last Name", "URL", "Position">>,
      <<"Last Name", "URL", "Company", "Position">> }

\* The cell of subject s in column col of an input table.
Cell(s, col) ==
    CASE col = "First Name" -> PyStr(s.first)
      [] col = "Last Name" -> PyStr(s.last)
      [] col = "Company" -> PyStr(s.company)
      [] col = "Position" -> PyStr(s.position)
      [] col = "URL" -> s.url
      [] OTHER -> PyStr(<<"o","l","d">>)

\* Columns of a header, as a set.
Cols(header) ==
    {header[i] : i \in 1..Len(header)}

\* The input table with the given header and n rows, starting at subject k.
InputTable(header, n, k) ==
    [columns |-> header,
     rows |-> [i \in 1..n |->
                 [col \in Cols(header) |->
                     Cell(Subjects[((k + i - 1) % Len(Subjects)) + 1], col)]]]

\* -------------------------------------------------------------------- state

VARIABLES
    df,            \* the in-memory table: its column list and its rows
    csv,           \* the file at output_file: whether it exists, and its content
    pc,            \* where process_profiles is
    index,         \* the number of the row in flight (1-based), 0 before the first
    profile_text,  \* what get_linkedin_profile_data returned for the row in flight
    completion,    \* what the completion capability answered for the row in flight
    interests,     \* what get_interests_from_profile returned for the row in flight
    answers,       \* the search answers received by the resolver call in flight
    slept,         \* the durations of the sleeps made for the row in flight
    stats,         \* per row started: how often it was resolved, classified,
                   \* written, saved and paused, and whether its snippet was empty
    raised,        \* the exception that ended the run, "" when none
    input,         \* the table in the input file (for a direct call of
                   \* process_profiles: the table passed to it)
    env,           \* the credentials in the environment, and whether the input
                   \* file exists
    stub,          \* the capabilities: free to answer anything, or deterministic
                   \* stubs (one answer per URL, one completion per snippet)
    run,           \* 1 in the first run, 2 in a second run on the same input
    first_csv      \* the output file as the first run left it

vars ==
    <<df, csv, pc, index, profile_text, completion, interests, answers, slept, stats,
      raised, input, env, stub, run, first_csv>>

\* What a step of one run leaves alone.
setting ==
    <<input, env, stub, run, first_csv>>

\* No completion request has been answered for the row in flight.
NoCompletion ==
    [kind |-> "none", text |-> <<>>, value |-> PyNone]

NoFile ==
    [exists |-> FALSE, columns |-> <<>>, rows |-> <<>>]

\* The text to_csv writes for a cell: a NaN is written as the empty field.
to_csv_cell(v) ==
    IF v.t = "str" THEN v.s ELSE <<>>

\* to_csv in append mode: the rows are added to those already in the file.
to_csv_Append(d) ==
    [exists |-> TRUE, columns |-> d.columns,
     rows |-> csv.rows \o
              [i \in 1..Len(d.rows) |->
                  [j \in 1..Len(d.columns) |-> to_csv_cell(d.rows[i][d.columns[j]])]]]

\* df.to_csv(output_file, index=False): the header and every row, in order.
to_csv(d) ==
    [exists |-> TRUE,
     columns |-> d.columns,
     rows |-> [i \in 1..Len(d.rows) |->
                 [j \in 1..Len(d.columns) |-> to_csv_cell(d.rows[i][d.columns[j]])]]]

\* df['Interests'] = '' when the column is missing.
add_interests_column(d) ==
    IF "Interests" \in Cols(d.columns) THEN d
    ELSE [columns |-> Append(d.columns, "Interests"),
          rows |-> [i \in 1..Len(d.rows) |->
                      [col \in Cols(d.columns) \cup {"Interests"} |->
                          IF col = "Interests" THEN PyStr(<<>>) ELSE d.rows[i][col]]]]

\* df['Interests'] = value: the value goes into the cell of every row.
set_interests_WholeColumn(d, i, value) ==
    [d EXCEPT !.rows = [k \in 1..Len(d.rows) |->
                           [d.rows[k] EXCEPT !["Interests"] = PyStr(value)]]]

\* df.at[i, 'Interests'] = value
set_interests(d, i, value) ==
    [d EXCEPT !.rows[i]["Interests"] = PyStr(value)]

NewStats ==
    [resolved |-> 0, empty |-> FALSE, classified |-> 0, written |-> 0,
     saved |-> 0, paused |-> 0]

\* The number of 429 answers among the answers received.
Count429(as) ==
    Cardinality({i \in 1..Len(as) : as[i].kind = "http" /\ as[i].status = 429})

\* The environment main needs: both API keys set, the input file present.
GoodEnv ==
    [openai_key |-> TRUE, serpapi_key |-> TRUE, file_exists |-> TRUE]

\* The environments main may be started in.
Envs ==
    { GoodEnv,
      [GoodEnv EXCEPT !.openai_key = FALSE],
      [GoodEnv EXCEPT !.serpapi_key = FALSE],
      [GoodEnv EXCEPT !.file_exists = FALSE] }

\* Capabilities that may answer every request with any answer of the pools.
FreeStub ==
    [free |-> TRUE, search |-> <<>>, completion |-> <<>>]

\* The URLs of the subjects that have one.
Urls ==
    {Subjects[i].url : i \in {j \in 1..Len(Subjects) : Subjects[j].url.t = "str"}}

\* The answers a deterministic search stub gives.
StubAnswers ==
    { Http(429),
      TransportError,
      HttpJson(200, PyDict(<< <<"organic_results", PyList(<<ResultAda>>)>> >>)) }

\* The snippets the resolver makes of them.
StubSnippets ==
    {get_linkedin_profile_data(u, a) : u \in Urls, a \in StubAnswers \ {Http(429)}}
        \ {<<>>}

\* The completions a deterministic classifier stub gives.
StubCompletions ==
    { Json(PyDict(<< <<"interests", PyList(FiveLabels)>> >>)),
      NotJson(TextNoLabel),
      Json(PyDict(<< <<"interests", PyList(<<PyInt>>)>> >>)) }

\* Deterministic stubs: the answer is a function of the URL asked for, the
\* completion a function of the snippet.
Stubs ==
    [free : {FALSE}, search : [Urls -> StubAnswers],
     completion : [StubSnippets -> StubCompletions]]

Init ==
    /\ \E header \in Headers, n \in 0..MaxRows, k \in 0..(Len(Subjects) - 1) :
           df = InputTable(header, n, k)
    /\ csv = NoFile
    /\ pc = "start"
    /\ index = 0
    /\ profile_text = <<>>
    /\ completion = NoCompletion
    /\ interests = PyNone
    /\ answers = <<>>
    /\ slept = <<>>
    /\ stats = <<>>
    /\ raised = ""
    /\ input = df
    /\ env = GoodEnv
    /\ stub = FreeStub
    /\ run = 1
    /\ first_csv = NoFile

\* ------------------------------------------------------------ process_profiles

\* Abort with an except clause inside the loop: the error is logged and the
\* loop goes on with the next row.
Abort_SkipRow(exc) ==
    /\ pc' = "next_row"
    /\ raised' = exc

\* The except clause of process_profiles: log and re-raise.
Abort(exc) ==
    /\ pc' = "aborted"
    /\ raised' = exc

\* Resolved without the test of profile_text: every row is classified.
Resolved_AlwaysClassify(text) ==
    /\ profile_text' = text
    /\ stats' = [stats EXCEPT ![index].empty = (text = <<>>)]
    /\ pc' = "classify"

\* The resolver returned text for the row in flight: take the branch on it.
Resolved(text) ==
    /\ profile_text' = text
    /\ stats' = [stats EXCEPT ![index].empty = (text = <<>>)]
    /\ pc' = IF text # <<>> THEN "classify" ELSE "skip"

\* rate_limit_wait with the sleep left out: the retry follows at once.
rate_limit_wait_NoSleep(sleeps) ==
    sleeps

\* Lines 117-118: time.sleep(60) before the retry; sleeps is the list of the
\* sleeps made so far.
rate_limit_wait(sleeps) ==
    Append(sleeps, COOLDOWN)

\* Lines 154-159: add the Interests column when it is missing.
Start ==
    /\ pc = "start"
    /\ df' = add_interests_column(df)
    /\ pc' = "next_row"
    /\ UNCHANGED <<csv, index, profile_text, completion, interests, answers, slept, stats,
                   raised>>
    /\ UNCHANGED setting

\* Lines 162-167: the loop takes the next row, reads its name and its URL and
\* calls the resolver; after the last row the function returns (line 192).
NextRow ==
    /\ pc = "next_row"
    /\ IF index = Len(df.rows)
       THEN /\ pc' = "done"
            /\ UNCHANGED <<index, stats, raised, answers, slept, completion>>
       ELSE /\ index' = index + 1
            /\ completion' = NoCompletion
            /\ answers' = <<>>
            /\ slept' = <<>>
            /\ IF {"First Name", "Last Name", "URL"} \subseteq Cols(df.columns)
               THEN /\ pc' = "resolve"
                    /\ stats' = Append(stats, [NewStats EXCEPT !.resolved = 1])
                    /\ UNCHANGED raised
               ELSE /\ Abort("KeyError")
                    /\ stats' = Append(stats, NewStats)
    /\ UNCHANGED <<df, csv, profile_text, interests>>
    /\ UNCHANGED setting

\* get_linkedin_profile_data with a URL value that is not a str: url.split
\* raises before any request is made, and the call returns "".
ResolveNoUrl ==
    /\ pc = "resolve"
    /\ df.rows[index]["URL"].t # "str"
    /\ Resolved(get_linkedin_profile_data(df.rows[index]["URL"], TransportError))
    /\ UNCHANGED <<df, csv, index, completion, interests, answers, slept, raised>>
    /\ UNCHANGED setting

\* One frame of get_linkedin_profile_data: it sends one search request and
\* gets the answer r. On a 429 it sleeps and calls itself; otherwise it returns.
\* The call that would exceed the recursion limit raises RecursionError, which
\* the except clause of line 146 catches: the resolver returns "".
Request(r) ==
    /\ pc = "resolve"
    /\ df.rows[index]["URL"].t = "str"
    /\ IF stub.free THEN TRUE ELSE r = stub.search[df.rows[index]["URL"]]
    /\ answers' = Append(answers, r)
    /\ IF rate_limited(df.rows[index]["URL"], r)
       THEN /\ slept' = rate_limit_wait(slept)
            /\ IF Count429(answers) < Max429
               THEN UNCHANGED <<pc, profile_text, stats>>
               ELSE Resolved(<<>>)
       ELSE /\ Resolved(get_linkedin_profile_data(df.rows[index]["URL"], r))
            /\ UNCHANGED slept
    /\ UNCHANGED <<df, csv, index, completion, interests, raised>>
    /\ UNCHANGED setting

\* Lines 171-178: build person_info from the row and call the classifier,
\* whose completion request is answered with c.
Classify(c) ==
    /\ pc = "classify"
    /\ IF stub.free THEN TRUE ELSE c = stub.completion[profile_text]
    /\ IF {"Company", "Position"} \subseteq Cols(df.columns)
       THEN /\ completion' = c
            /\ interests' = get_interests_from_profile(c)
            /\ stats' = [stats EXCEPT ![index].classified = @ + 1]
            /\ pc' = "write"
            /\ UNCHANGED raised
       ELSE /\ Abort("KeyError")
            /\ UNCHANGED <<completion, interests, stats>>
    /\ UNCHANGED <<df, csv, index, profile_text, answers, slept>>
    /\ UNCHANGED setting

\* Line 181: join the returned value and write it into the row's cell.
Write ==
    /\ pc = "write"
    /\ LET joined == join_interests(interests)
       IN  IF joined.exc = ""
           THEN /\ df' = set_interests(df, index, joined.value.s)
                /\ stats' = [stats EXCEPT ![index].written = @ + 1]
                /\ pc' = "save"
                /\ UNCHANGED raised
           ELSE /\ Abort(joined.exc)
                /\ UNCHANGED <<df, stats>>
    /\ UNCHANGED <<csv, index, profile_text, completion, interests, answers, slept>>
    /\ UNCHANGED setting

\* Line 184: save the whole table to the output file.
Save ==
    /\ pc = "save"
    /\ csv' = to_csv(df)
    /\ stats' = [stats EXCEPT ![index].saved = @ + 1]
    /\ pc' = "pace"
    /\ UNCHANGED <<df, index, profile_text, completion, interests, answers, slept, raised>>
    /\ UNCHANGED setting

\* The delay taken twice.
Pace_Twice ==
    /\ pc = "pace"
    /\ slept' = Append(Append(slept, PACE), PACE)
    /\ stats' = [stats EXCEPT ![index].paused = @ + 2]
    /\ pc' = "next_row"
    /\ UNCHANGED <<df, csv, index, profile_text, completion, interests, answers, raised>>
    /\ UNCHANGED setting

\* Line 187: the delay after a classified row.
Pace ==
    /\ pc = "pace"
    /\ slept' = Append(slept, PACE)
    /\ stats' = [stats EXCEPT ![index].paused = @ + 1]
    /\ pc' = "next_row"
    /\ UNCHANGED <<df, csv, index, profile_text, completion, interests, answers, raised>>
    /\ UNCHANGED setting

\* The empty-snippet branch going back to look the profile up again.
Skip_RetryRow ==
    /\ pc = "skip"
    /\ df' = set_interests(df, index, Sentinel)
    /\ pc' = "resolve"
    /\ answers' = <<>>
    /\ slept' = <<>>
    /\ UNCHANGED <<csv, index, profile_text, completion, interests, stats, raised>>
    /\ UNCHANGED setting

\* Lines 188-190: the empty-snippet branch writes the sentinel into the cell.
Skip ==
    /\ pc = "skip"
    /\ df' = set_interests(df, index, Sentinel)
    /\ stats' = [stats EXCEPT ![index].written = @ + 1]
    /\ pc' = "next_row"
    /\ UNCHANGED <<csv, index, profile_text, completion, interests, answers, slept, raised>>
    /\ UNCHANGED setting

\* process_profiles runs as one thread; the process may be interrupted between
\* any two steps, which is a behaviour that stops there.
Next ==
    \/ Start
    \/ NextRow
    \/ ResolveNoUrl
    \/ \E r \in SearchAnswers : Request(r)
    \/ \E c \in Completions : Classify(c)
    \/ Write
    \/ Save
    \/ Pace
    \/ Skip

Spec ==
    Init /\ [][Next]_vars

\* ------------------------------------------------------------------------ main

\* The table before any file has been read.
NoTable ==
    [columns |-> <<>>, rows |-> <<>>]

\* validate_csv_structure (linkedin_tagger.py, lines 87-97).
validate_csv_structure(d) ==
    {"First Name", "Last Name", "Company", "Position"} \subseteq Cols(d.columns)

\* read_linkedin_csv (lines 99-124) of a file without notes rows, whose table
\* is t: df.iloc[0] of line 106 raises IndexError when the table has no row.
read_linkedin_csv(t) ==
    IF Len(t.rows) = 0 THEN [exc |-> "IndexError", value |-> NoTable]
    ELSE [exc |-> "", value |-> t]

\* df.tail(n): the last n rows.
head_Tail(d, n) ==
    [d EXCEPT !.rows = IF Len(d.rows) <= n THEN d.rows
                       ELSE SubSeq(d.rows, Len(d.rows) - n + 1, Len(d.rows))]

\* df.head(n): the first n rows.
head(d, n) ==
    [d EXCEPT !.rows = IF Len(d.rows) <= n THEN d.rows ELSE SubSeq(d.rows, 1, n)]

\* Lines 129-146 of main: the exception raised before process_profiles is
\* called, "" when there is none.
main_checks(e, t) ==
    IF ~e.openai_key \/ ~e.serpapi_key THEN "ValueError"
    ELSE IF ~e.file_exists THEN "FileNotFoundError"
    ELSE IF read_linkedin_csv(t).exc # "" THEN read_linkedin_csv(t).exc
    ELSE IF ~validate_csv_structure(read_linkedin_csv(t).value) THEN "ValueError"
    ELSE ""

\* main (lines 126-155) up to its call of process_profiles on the first
\* HeadLimit rows; an exception of the checks ends the program.
Main ==
    /\ pc = "main"
    /\ IF main_checks(env, input) = ""
       THEN /\ df' = head(read_linkedin_csv(input).value, HeadLimit)
            /\ pc' = "start"
            /\ UNCHANGED raised
       ELSE /\ pc' = "failed"
            /\ raised' = main_checks(env, input)
            /\ UNCHANGED df
    /\ UNCHANGED <<csv, index, profile_text, completion, interests, answers, slept, stats>>
    /\ UNCHANGED setting

\* The program is started a second time, on the same input file and with the
\* same stubs; the output file of the first run is still there.
Rerun ==
    /\ pc \in {"done", "aborted", "failed"}
    /\ run = 1
    /\ run' = 2
    /\ first_csv' = csv
    /\ pc' = "main"
    /\ df' = NoTable
    /\ index' = 0
    /\ profile_text' = <<>>
    /\ completion' = NoCompletion
    /\ interests' = PyNone
    /\ answers' = <<>>
    /\ slept' = <<>>
    /\ stats' = <<>>
    /\ raised' = ""
    /\ UNCHANGED <<csv, input, env, stub>>

InitMain ==
    /\ \E header \in Headers, n \in 0..MaxInputRows : input = InputTable(header, n, 0)
    /\ env \in Envs
    /\ stub \in Stubs
    /\ df = NoTable
    /\ csv = NoFile
    /\ pc = "main"
    /\ index = 0
    /\ profile_text = <<>>
    /\ completion = NoCompletion
    /\ interests = PyNone
    /\ answers = <<>>
    /\ slept = <<>>
    /\ stats = <<>>
    /\ raised = ""
    /\ run = 1
    /\ first_csv = NoFile

NextMain ==
    \/ Main
    \/ Rerun
    \/ Next

\* The program started from main, twice, with deterministic stubs.
MainSpec ==
    InitMain /\ [][NextMain]_vars

\* ------------------------------------------------------------------ fairness

\* process_profiles is straight-line code in one thread: a step that can be
\* taken is taken, unless the process is interrupted.
FairSpec ==
    Spec /\ WF_vars(Next)

\* ---------------------------------------------------------- claim vocabulary

\* The position of column name in a column list.
ColPos(columns, name) ==
    CHOOSE j \in 1..Len(columns) : columns[j] = name

\* The Interests field of row i in the output file, "" when the file, the row
\* or the column is not there.
SavedInterests(i) ==
    IF csv.exists /\ i <= Len(csv.rows) /\ "Interests" \in Cols(csv.columns)
    THEN csv.rows[i][ColPos(csv.columns, "Interests")]
    ELSE <<>>

\* The Interests cell of row i of the in-memory table.
InterestsCell(i) ==
    df.rows[i]["Interests"].s

\* Row i has been written and is no longer the row in flight.
Finished(i) ==
    /\ i \in 1..Len(stats)
    /\ stats[i].written > 0
    /\ (i < index \/ pc \in {"next_row", "done"})

\* The entries of a value returned by the classifier: the elements of a list,
\* the characters of a str.
Entries(v) ==
    IF v.t = "str" THEN [i \in 1..Len(v.s) |-> PyStr(<<v.s[i]>>)] ELSE v.items

\* The labels of INTERESTS, as a set.
Taxonomy ==
    {INTERESTS[i] : i \in 1..Len(INTERESTS)}

\* v is a str that belongs to the taxonomy or is the sentinel.
TaxonomyOrSentinel(v) ==
    v.t = "str" /\ (v.s \in Taxonomy \/ v.s = Sentinel)

\* The search answer is a result set with usable text: every result has a
\* title that is a non-blank str, and the other fields are strs.
UsableResultSet(r) ==
    /\ r.kind = "http" /\ r.status = 200 /\ r.json
    /\ r.data.t = "dict" /\ HasKey(r.data, "organic_results")
    /\ LET results == GetKey(r.data, "organic_results")
       IN  /\ results.t = "list" /\ Len(results.items) > 0
           /\ \A i \in 1..Len(results.items) :
                 LET res == results.items[i]
                 IN  /\ HasKey(res, "title")
                     /\ GetKey(res, "title").t = "str"
                     /\ strip(GetKey(res, "title").s) # <<>>
                     /\ HasKey(res, "snippet") => GetKey(res, "snippet").t = "str"

\* The search answer is a failure other than a 429, or an empty result set.
FailedLookup(r) ==
    \/ r.kind = "transport_error"
    \/ r.kind = "http" /\ r.status >= 400 /\ r.status # 429
    \/ r.kind = "http" /\ r.status < 400 /\ ~r.json
    \/ /\ r.kind = "http" /\ r.status < 400 /\ r.json
       /\ \/ r.data.t # "dict"
          \/ ~HasKey(r.data, "organic_results")
          \/ GetKey(r.data, "organic_results").t # "list"
          \/ Len(GetKey(r.data, "organic_results").items) = 0

\* The resolver call for the row in flight has returned.
ResolverReturned ==
    pc \in {"classify", "skip"}

\* ------------------------------------------------------------------- claims

\* C1 (as claimed): every row that has been written and is no longer in
\* flight, on the classified path and on the empty-snippet path alike, has its
\* Interests value in the output file. The code saves only on the classified
\* path.
C1_SavedAfterEveryRow ==
    \A i \in 1..Len(stats) :
        Finished(i) => (csv.exists /\ SavedInterests(i) = InterestsCell(i))

\* C2 (as claimed): once row number index (rows 1..index here, 0..i in the
\* claim) is finished without an abort, the output file has exactly the rows
\* 1..index with a non-empty Interests value.
C2_SavedRowsNonEmpty ==
    (pc = "next_row" /\ index >= 1) =>
        /\ csv.exists
        /\ {i \in 1..Len(df.rows) : SavedInterests(i) # <<>>} = 1..index

\* C3: a row whose snippet came back empty is never classified, and once it
\* is written its Interests value is exactly the sentinel.
C3_EmptySnippetSkipsClassifier ==
    \A i \in 1..Len(stats) :
        stats[i].empty =>
            /\ stats[i].classified = 0
            /\ (i = index => pc \notin {"classify", "write", "save", "pace"})
            /\ stats[i].written > 0 => InterestsCell(i) = Sentinel

C3_Witness ==
    /\ pc = "done"
    /\ \E i \in 1..Len(stats) :
          stats[i].empty /\ stats[i].written = 1 /\ InterestsCell(i) = Sentinel
    /\ \E i \in 1..Len(stats) : stats[i].classified = 1

\* C4 (as claimed): the Tag Set the classifier returns for a row is a list of
\* 1 to 10 strs, and the Interests value of a written row is never empty. The
\* code returns [] for a JSON empty array and writes "".
C4_TagSetNeverEmpty ==
    /\ pc = "write" =>
          /\ interests.t = "list"
          /\ Len(interests.items) \in 1..MaxTags
    /\ \A i \in 1..Len(stats) : stats[i].written > 0 => InterestsCell(i) # <<>>

\* C5 (as claimed): on every parsing path, each entry of the returned Tag Set
\* is a label of INTERESTS or the sentinel.
C5_AllPathsInTaxonomy ==
    pc = "write" =>
        \A i \in 1..Len(Entries(interests)) : TaxonomyOrSentinel(Entries(interests)[i])

\* C5 (amended): when the response is not parseable as JSON, or the request
\* or its parsing fails, each entry of the returned Tag Set is a label of
\* INTERESTS or the sentinel; entries parsed from JSON are not checked.
C5_FallbackInTaxonomy ==
    (pc = "write" /\ completion.kind # "json") =>
        /\ interests.t = "list"
        /\ \A i \in 1..Len(interests.items) : TaxonomyOrSentinel(interests.items[i])

C5_Witness ==
    /\ pc = "write"
    /\ completion.kind = "not_json"
    /\ Len(interests.items) > 1
    /\ \A i \in 1..Len(interests.items) : interests.items[i].s \in Taxonomy

\* C6: the returned Tag Set has at most 10 entries on every path, and when the
\* response held more than 10 it is exactly the first 10 of them, in order.
C6_AtMostTenFirstTen ==
    pc = "write" =>
        /\ Len(Entries(interests)) <= MaxTags
        /\ LET parsed == parse_interests(completion)
           IN  (completion.kind \in {"json", "not_json"} /\ parsed.exc = ""
                   /\ parsed.value.t \in {"list", "str"}
                   /\ Len(Entries(parsed.value)) > MaxTags) =>
                   Entries(interests) = SubSeq(Entries(parsed.value), 1, MaxTags)

C6_Witness ==
    /\ pc = "write"
    /\ completion.kind = "not_json"
    /\ Len(Entries(parse_interests(completion).value)) > MaxTags
    /\ Len(interests.items) = MaxTags

\* C7 (as claimed): one pipeline call of get_linkedin_profile_data sends at
\* most two search requests. The code retries on every 429, without a cap.
C7_AtMostTwoRequests ==
    Len(answers) <= 2

\* C8: a 429 followed by a usable result set: the resolver has slept the
\* cooldown exactly once, between the two requests, and returns the snippet
\* derived from the result set, which is not empty.
C8_SingleRetrySucceeds ==
    (/\ ResolverReturned
     /\ Len(answers) = 2
     /\ answers[1].kind = "http" /\ answers[1].status = 429
     /\ UsableResultSet(answers[2])) =>
        /\ slept = <<COOLDOWN>>
        /\ profile_text # <<>>
        /\ profile_text = get_linkedin_profile_data(df.rows[index]["URL"], answers[2])
        /\ Contains(strip(GetKey(GetKey(answers[2].data, "organic_results").items[1],
                                 "title").s), profile_text)
        /\ pc = "classify"

C8_Witness ==
    /\ pc = "classify"
    /\ Len(answers) = 2
    /\ answers[1].status = 429
    /\ UsableResultSet(answers[2])
    /\ slept = <<COOLDOWN>>

\* C9: the resolver never propagates a failure: after a failure other than a
\* 429, an empty result set, or a URL value that is not a str, it has returned
\* "" and the pipeline is on the skip path; no resolver step aborts the batch.
C9_ResolverNeverPropagates ==
    /\ [](ResolverReturned =>
            /\ raised = ""
            /\ (df.rows[index]["URL"].t # "str" \/ FailedLookup(answers[Len(answers)])) =>
                  (profile_text = <<>> /\ pc = "skip"))
    /\ [][pc = "resolve" => pc' \in {"resolve", "classify", "skip"}]_vars

C9_Witness ==
    /\ pc = "done"
    /\ Len(df.rows) = 2
    /\ \A i \in 1..2 : stats[i].empty /\ InterestsCell(i) = Sentinel
    /\ Len(answers) > 0
    /\ answers[Len(answers)].kind = "transport_error"

\* C10 (as claimed): the batch is never aborted because of what the
\* classifier returned: a row that was classified is then written. The code
\* aborts with TypeError when an element of the returned list is not a str.
C10_ClassifierNeverAborts ==
    (pc = "aborted") => stats[index].classified = 0

\* The positions in INTERESTS of the labels that occur in text, compared in
\* lower case.
Occurring(text) ==
    {p \in 1..Len(INTERESTS) : Contains(lower(INTERESTS[p]), lower(text))}

\* The k-th smallest element of a set of numbers.
Kth(S, k) ==
    CHOOSE p \in S : Cardinality({q \in S : q < p}) = k - 1

\* C11: when the response is not parseable as JSON, the returned Tag Set is
\* the labels of INTERESTS that occur in the response text (compared in lower
\* case), each once, in INTERESTS order, cut to the first 10; and the single
\* sentinel when no label occurs.
C11_FallbackScan ==
    (pc = "write" /\ completion.kind = "not_json") =>
        LET occ == Occurring(completion.text)
            n == IF Cardinality(occ) < MaxTags THEN Cardinality(occ) ELSE MaxTags
        IN  /\ interests.t = "list"
            /\ IF occ = {}
               THEN interests.items = <<PyStr(Sentinel)>>
               ELSE /\ Len(interests.items) = n
                    /\ \A k \in 1..n : interests.items[k] = PyStr(INTERESTS[Kth(occ, k)])

\* A response that names Sales before Leadership, in another case, has been
\* scanned: the Tag Set is Leadership, Sales.
C11_Witness ==
    /\ pc = "write"
    /\ completion = NotJson(TextTwoLabels)
    /\ interests = PyList(<<PyStr(INTERESTS[4]), PyStr(INTERESTS[7])>>)

\* C12 (as claimed, for a completed run): after process_profiles has returned
\* from a non-empty table, the output file exists and holds the Interests
\* value of every row. The code saves only after a classified row.
C12_OutputAfterCompletedRun ==
    (pc = "done" /\ Len(df.rows) > 0) =>
        /\ csv.exists
        /\ \A i \in 1..Len(df.rows) : SavedInterests(i) = InterestsCell(i)

\* The step about to be taken raises an exception inside the loop: the row
\* lacks a field that is read, or the classifier's list holds a non-str.
Escapes ==
    \/ /\ pc = "next_row" /\ index < Len(df.rows)
       /\ ~({"First Name", "Last Name", "URL"} \subseteq Cols(df.columns))
    \/ /\ pc = "classify"
       /\ ~({"Company", "Position"} \subseteq Cols(df.columns))
    \/ /\ pc = "write" /\ interests.t = "list"
       /\ \E i \in 1..Len(interests.items) : interests.items[i].t # "str"

\* C13: an exception that escapes the per-row logic aborts the batch: it is
\* re-raised, the table and the output file are left as they were, and no
\* step follows the abort, so no later row is resolved, classified or written.
C13_EscapingExceptionAborts ==
    [][/\ pc # "aborted"
       /\ Escapes => /\ pc' = "aborted"
                     /\ raised' \in {"KeyError", "TypeError"}
                     /\ df' = df
                     /\ csv' = csv
                     /\ Len(stats') <= Len(stats) + 1
                     /\ \A i \in 1..Len(stats) : stats'[i] = stats[i]]_vars

C13_Witness ==
    /\ pc = "aborted"
    /\ raised = "TypeError"
    /\ index = 2
    /\ Len(df.rows) = 2
    /\ stats[1].written = 1
    /\ stats[2].written = 0

\* ------------------------------------------------------- claims about main

\* The columns the input table must have, by the specification.
RequiredColumns ==
    {"First Name", "Last Name", "Company", "Position", "URL"}

\* C14 (as claimed): when the input table lacks one of the required columns,
\* main fails at startup: process_profiles is never entered. The code's
\* validation does not ask for URL.
C14_MissingColumnFailsAtStartup ==
    ~(RequiredColumns \subseteq Cols(input.columns)) => pc \in {"main", "failed"}

\* Row i of the input file as to_csv writes it, for the input's own columns.
SameAsInput(i) ==
    \A j \in 1..Len(input.columns) :
        csv.rows[i][j] = to_csv_cell(input.rows[i][input.columns[j]])

\* C15 (as claimed): the output table a completed run started from main has
\* produced has the rows of the input table, in the same order, with the input's columns
\* plus one appended Interests column, whatever the number of rows.
C15_SameRowsPlusInterests ==
    (pc = "done" /\ csv.exists) =>
        /\ csv.columns = Append(input.columns, "Interests")
        /\ Len(csv.rows) = Len(input.rows)
        /\ \A i \in 1..Len(input.rows) : SameAsInput(i)

\* C15 (amended): an output table written by a run started from main has the
\* first HeadLimit rows of the input table (all of them when there are fewer),
\* in the same order, with the input's columns, followed by an appended
\* Interests column when the input has none; in the input's columns other
\* than Interests the cells are those of the input.
C15_FirstRowsPlusInterests ==
    csv.exists =>
        LET n == IF Len(input.rows) <= HeadLimit THEN Len(input.rows) ELSE HeadLimit
        IN  /\ csv.columns = IF "Interests" \in Cols(input.columns) THEN input.columns
                             ELSE Append(input.columns, "Interests")
            /\ Len(csv.rows) = n
            /\ \A i \in 1..n : \A j \in 1..Len(input.columns) :
                   input.columns[j] # "Interests" =>
                       csv.rows[i][j] = to_csv_cell(input.rows[i][input.columns[j]])

C15_Witness ==
    /\ pc = "done"
    /\ run = 1
    /\ Len(input.rows) > HeadLimit
    /\ csv.exists
    /\ Len(csv.rows) = HeadLimit
    /\ "Interests" \notin Cols(input.columns)

\* A run has come to its end: returned, aborted, or failed at startup.
Ended ==
    pc \in {"done", "aborted", "failed"}

OneRowAtATime ==
    /\ Len(stats) = index
    /\ index <= Len(df.rows)
    /\ \A i \in 1..Len(stats) : stats[i].resolved <= 1 /\ stats[i].written <= 1
    /\ \A i \in 1..Len(stats) :
           (i < index \/ pc \in {"next_row", "done"}) =>
               stats[i].resolved = 1 /\ stats[i].written = 1
    /\ pc = "done" => index = Len(df.rows)

\* A step changes no cell but the Interests cell of the row in flight, and
\* that one only in the step that writes it, which it does once.
OnlyOwnCell ==
    /\ index' \in {index, index + 1}
    /\ Len(df'.rows) = Len(df.rows)
    /\ \A i \in 1..Len(df.rows) :
           /\ DOMAIN df.rows[i] \subseteq DOMAIN df'.rows[i]
           /\ \A col \in DOMAIN df.rows[i] :
                  df'.rows[i][col] # df.rows[i][col] =>
                      /\ i = index
                      /\ col = "Interests"
                      /\ stats[i].written = 0
                      /\ stats'[i].written = 1

\* C17: process_profiles handles the rows one at a time in table order: each
\* row is resolved once and its Interests cell written once and never changed
\* afterwards, row i+1 is not started before row i is written, and the steps
\* of row i leave every other cell of the table as it was.
C17_RowsOneAtATime ==
    []OneRowAtATime /\ [][OnlyOwnCell]_vars

C17_Witness ==
    /\ pc = "done"
    /\ Len(df.rows) = 2
    /\ stats[1].empty /\ stats[1].written = 1
    /\ ~stats[2].empty /\ stats[2].written = 1
    /\ df.rows[1]["Interests"] # df.rows[2]["Interests"]

LeftBehind(i) ==
    i < index \/ pc \in {"next_row", "done"}

\* A pause is taken for a row at most once, only when its snippet was not
\* empty and its value is written and saved; a finished row has had its pause
\* exactly when its snippet was not empty.
PausedAfterClassified ==
    \A i \in 1..Len(stats) :
        /\ stats[i].paused <= 1
        /\ stats[i].paused = 1 =>
               ~stats[i].empty /\ stats[i].written = 1 /\ stats[i].saved = 1
        /\ LeftBehind(i) => stats[i].paused = IF stats[i].empty THEN 0 ELSE 1

\* The pause is one sleep of PACE, taken after the save and before the next
\* row is started; no other step after the lookup sleeps.
PauseStep ==
    /\ (pc \notin {"resolve", "next_row"} /\ slept' # slept) =>
           /\ pc = "pace"
           /\ stats[index].written = 1
           /\ stats[index].saved = 1
           /\ stats'[index].paused = 1
           /\ slept' = Append(slept, PACE)
           /\ index' = index
           /\ pc' = "next_row"
    /\ pc = "skip" => slept' = slept /\ pc' = "next_row"

\* C19: process_profiles pauses for the fixed delay of 2 exactly once after
\* every row whose snippet was not empty, after the row's value has been
\* written and saved and before the next row is started; a row that took the
\* skip path is followed by no pause.
C19_PauseAfterClassifiedRow ==
    []PausedAfterClassified /\ [][PauseStep]_vars

C19_Witness ==
    /\ pc = "done"
    /\ Len(stats) = 2
    /\ ~stats[1].empty /\ stats[1].paused = 1 /\ stats[1].saved = 1
    /\ stats[2].empty /\ stats[2].paused = 0
====
